---- MODULE Spec2Model ----
(***************************************************************************)
(* Model of src/app/f/[formId]/page.tsx: the FormPage component (payload,  *)
(* loading, submitting, error; the load effect, upsertAnswer,              *)
(* upsertTableRow, handleSubmit, mutateAnswer, the per-type onChange       *)
(* handlers of renderQuestion) and the TableEditor component (localRows,   *)
(* updateRow, addRow, saveRow).                                            *)
(*                                                                         *)
(* JavaScript values are tagged records so that values of different types  *)
(* can be compared: null is Null, a boolean b is Bool(b), a string s is    *)
(* Str(s), an array a is Arr(a), a number n is Num(n), NaN is NaN.  An     *)
(* optional property (options, config, table_rows) that is absent is a     *)
(* missing record field.  A string that the code parses or formats is a    *)
(* sequence of one-character strings.                                      *)
(*                                                                         *)
(* Every await of a remote call splits its handler in two: the action that *)
(* issues the call and the action in which the call settles and the        *)
(* handler's continuation runs.  A React state update, the re-render it    *)
(* causes and the effects that re-render fires are one step.               *)
(***************************************************************************)
EXTENDS Integers, Sequences, FiniteSets, TLC

VARIABLES
    payload,      \* useState<Payload | null>: Null or [ref, val] (line 26)
    loading,      \* useState(true) (line 27)
    submitting,   \* useState(false) (line 28)
    error,        \* useState<string | null> (line 29)
    localRows,    \* TableEditor's useState(rows), per mounted editor (line 322)
    rowsRef,      \* which array object each editor's localRows state holds
    loadCalls,    \* get_form_payload calls of the load effect in flight
    answerCalls,  \* upsert_answer calls in flight, in the order issued
    rowCalls,     \* upsert_table_row calls in flight, in the order issued
    submitCalls,  \* submit_form calls in flight
    reloadCalls,  \* get_form_payload calls of handleSubmit in flight
    srvStatus,    \* the form status held by the remote service
    srvQuestions, \* the question list held by the remote service
    addedRows,    \* the <<code, row_index>> of the addRow calls that succeeded
    ev            \* the last step taken: what the handler did and alerted

vars == <<payload, loading, submitting, error, localRows, rowsRef, loadCalls,
          answerCalls, rowCalls, submitCalls, reloadCalls, srvStatus,
          srvQuestions, addedRows, ev>>

----------------------------------------------------------------------------
(* Bounds of the model *)

\* remote calls in flight at once, of all kinds together
MaxInFlight == 2
\* addRow is activated while the row_index it computes is less than this
\* much above the largest row_index of the rows prop
MaxNewRows == 1

----------------------------------------------------------------------------
(* JavaScript values *)

Null == [null |-> TRUE]
NaN == [nan |-> TRUE]
Bool(b) == [bool |-> b]
Str(s) == [str |-> s]
Arr(a) == [arr |-> a]
Num(n) == [num |-> n]

IsArray(v) == "arr" \in DOMAIN v

\* Array.prototype.includes on a sequence
Includes(a, x) == \E i \in 1..Len(a) : a[i] = x

----------------------------------------------------------------------------
(* Value Codec: the conversions the onChange handlers apply *)

Digits == <<"0", "1", "2", "3", "4", "5", "6", "7", "8", "9">>
IsDigit(c) == \E d \in 1..10 : Digits[d] = c
DigitVal(c) == (CHOOSE d \in 1..10 : Digits[d] = c) - 1

\* the value of a sequence of decimal digits (0 for none)
RECURSIVE IntOf(_)
IntOf(ds) ==
    IF ds = <<>> THEN 0
    ELSE IntOf(SubSeq(ds, 1, Len(ds) - 1)) * 10 + DigitVal(ds[Len(ds)])

\* String.prototype.replace(/\./g, ""): every "." removed
RECURSIVE removeDots(_)
removeDots(s) ==
    IF s = <<>> THEN <<>>
    ELSE (IF Head(s) = "." THEN <<>> ELSE <<Head(s)>>) \o removeDots(Tail(s))

\* String.prototype.replace(",", "."): the first "," only
RECURSIVE commaToDot(_)
commaToDot(s) ==
    IF s = <<>> THEN <<>>
    ELSE IF Head(s) = "," THEN <<".">> \o Tail(s)
    ELSE <<Head(s)>> \o commaToDot(Tail(s))

\* the position of the first "." of s, or 0
DotAt(s) == IF \E i \in 1..Len(s) : s[i] = "."
            THEN CHOOSE i \in 1..Len(s) : s[i] = "." /\ \A j \in 1..(i - 1) : s[j] # "."
            ELSE 0

\* Number(s) accepts s (over digits, "." and other characters): digits with at
\* most one ".", and at least one digit; the empty string is 0
IsNumeric(s) ==
    \/ s = <<>>
    \/ /\ \A i \in 1..Len(s) : IsDigit(s[i]) \/ s[i] = "."
       /\ Cardinality({i \in 1..Len(s) : s[i] = "."}) <= 1
       /\ \E i \in 1..Len(s) : IsDigit(s[i])

\* Math.round(Number(s) * 100) for a numeric s with at most two fractional
\* digits after rounding half up on the third: NaN for a non-numeric s
roundCents(s) ==
    IF ~IsNumeric(s) THEN NaN
    ELSE LET d == DotAt(s)
             ip == IF d = 0 THEN s ELSE SubSeq(s, 1, d - 1)
             fp == IF d = 0 THEN <<>> ELSE SubSeq(s, d + 1, Len(s))
             f1 == IF Len(fp) >= 1 THEN DigitVal(fp[1]) ELSE 0
             f2 == IF Len(fp) >= 2 THEN DigitVal(fp[2]) ELSE 0
             up == IF Len(fp) >= 3 /\ DigitVal(fp[3]) >= 5 THEN 1 ELSE 0
         IN Num(IntOf(ip) * 100 + f1 * 10 + f2 + up)

\* the currency onChange (lines 210-215): clean, Number(clean || 0), payload
currencyPayload(q, input) ==
    LET clean == commaToDot(removeDots(input))
    IN [amount_cents |-> roundCents(clean),
        currency |-> IF "config" \in DOMAIN q /\ "currency" \in DOMAIN q.config
                     THEN q.config.currency ELSE "BRL"]

\* the number onChange (line 249): "" is null, otherwise Number(value); an
\* input of type number yields only "" or a numeric string
numberValue(input) ==
    IF input = <<>> THEN Null ELSE Num(IntOf(input))

\* the multi_select onChange (lines 165-167): a Set built from the answer,
\* the option added or deleted, Array.from in insertion order
RECURSIVE dedup(_)
dedup(a) ==
    IF a = <<>> THEN <<>>
    ELSE LET init == dedup(SubSeq(a, 1, Len(a) - 1))
             x == a[Len(a)]
         IN IF Includes(init, x) THEN init ELSE Append(init, x)

RECURSIVE without(_, _)
without(a, x) ==
    IF a = <<>> THEN <<>>
    ELSE (IF Head(a) = x THEN <<>> ELSE <<Head(a)>>) \o without(Tail(a), x)

toggleOption(q, o, checked) ==
    LET cur == dedup(IF IsArray(q.answer) THEN q.answer.arr ELSE <<>>)
    IN Arr(IF checked
           THEN (IF Includes(cur, o) THEN cur ELSE Append(cur, o))
           ELSE without(cur, o))

\* the checked prop of an option's checkbox (line 158)
optionChecked(q, o) == IsArray(q.answer) /\ Includes(q.answer.arr, o)

\* the decimal digits of a natural number
RECURSIVE digitsOf(_)
digitsOf(n) ==
    IF n < 10 THEN <<Digits[n + 1]>>
    ELSE Append(digitsOf(n \div 10), Digits[(n % 10) + 1])

\* the value prop of the currency input (lines 197-199): "" for a missing,
\* zero or NaN amount, otherwise (amount_cents / 100).toFixed(2)
currencyDisplay(q) ==
    IF /\ "amount_cents" \in DOMAIN q.answer
       /\ "num" \in DOMAIN q.answer.amount_cents
       /\ q.answer.amount_cents.num # 0
    THEN LET n == q.answer.amount_cents.num
         IN digitsOf(n \div 100) \o <<".">>
              \o <<Digits[((n % 100) \div 10) + 1], Digits[(n % 10) + 1]>>
    ELSE <<>>

----------------------------------------------------------------------------
(* The payloads the remote service returns.  The service is outside the    *)
(* repository: get_form_payload returns null or any of these question      *)
(* lists (codes unique within a form, row_index unique within a table),    *)
(* with the form status the service holds.                                 *)

qBool == [code |-> "q_bool", type |-> "boolean", label |-> "Bool", answer |-> Null]
qSel == [code |-> "q_sel", type |-> "single_select", label |-> "Sel",
         options |-> <<[value |-> "a", label |-> "A", order |-> 1],
                       [value |-> "b", label |-> "B", order |-> 2]>>,
         answer |-> Null]
qMulti == [code |-> "q_multi", type |-> "multi_select", label |-> "Multi",
           options |-> <<[value |-> "a", label |-> "A", order |-> 1],
                         [value |-> "b", label |-> "B", order |-> 2]>>,
           answer |-> Arr(<<"a">>)]
qDate == [code |-> "q_date", type |-> "date", label |-> "Date", answer |-> Null]
qCur == [code |-> "q_cur", type |-> "currency", label |-> "Cur", answer |-> Null]
qCurUSD == [code |-> "q_cur", type |-> "currency", label |-> "Cur",
            config |-> [currency |-> "USD"],
            answer |-> [amount_cents |-> Num(1250), currency |-> "USD"]]
qText == [code |-> "q_text", type |-> "text", label |-> "Text", answer |-> Null]
qNum == [code |-> "q_num", type |-> "number", label |-> "Num", answer |-> Null]
qAtt == [code |-> "q_att", type |-> "attachment", label |-> "Att", answer |-> Null]
qOther == [code |-> "q_sig", type |-> "signature", label |-> "Sig", answer |-> Null]
qTabAcme == [code |-> "q_tab", type |-> "table", label |-> "Tab", answer |-> Null,
             table_rows |-> <<[row_index |-> 0, row |-> [name |-> Str("Acme")]]>>]
qTab013 == [code |-> "q_tab", type |-> "table", label |-> "Tab", answer |-> Null,
            table_rows |-> <<[row_index |-> 0,
                              row |-> [name |-> Str("Acme"),
                                       has_baa |-> Bool(TRUE)]],
                             [row_index |-> 1, row |-> <<>>],
                             [row_index |-> 3, row |-> <<>>]>>]
qTabNoRows == [code |-> "q_tab", type |-> "table", label |-> "Tab", answer |-> Null]

Forms ==
    { <<qBool, qSel>>, <<qMulti>>, <<qText, qNum>>, <<qCur>>, <<qCurUSD>>,
      <<qDate, qTabAcme>>, <<qTab013, qAtt, qOther>>, <<qTabNoRows>> }

\* what get_form_payload returns as data when it returns no error
FetchResults(id, status, questions) ==
    {Null,
     [form |-> [id |-> id, status |-> status, company |-> "Acme"],
      questions |-> questions]}

\* the values the user can put into the widgets
DateInputs == {"2024-01-31"}
TextInputs == {"", "hi"}
NumberInputs == {<<>>, <<"7">>}
CurrencyInputs == {<<>>, <<"1", "2", ",", "5", "0">>, <<"a">>}
RowKeys == {"name"}
RowInput(key) == {Str("Zed")}
\* the rows (by row_index) whose inputs and "Salvar linha" the user touches
EditedRows == {0}

----------------------------------------------------------------------------
(* FormPage: state, rendering, mutateAnswer *)

\* A Payload object held in state is [ref, val]: val is its content, ref is
\* the identity of the object; a new object gets the other identity, which
\* is all that React's Object.is comparison of consecutive values needs.
OtherRef(r) == IF r = "A" THEN "B" ELSE "A"

\* the state after setPayload(data) with data a value just received or
\* built: null, or a new Payload object
NewSnapshot(prev, data) ==
    IF data = Null THEN Null
    ELSE [ref |-> IF prev = Null THEN "A" ELSE OtherRef(prev.ref), val |-> data]

\* Array.prototype.findIndex over the questions (0-based, -1 for none)
findIndex(questions, code) ==
    IF \E i \in 1..Len(questions) : questions[i].code = code
    THEN (CHOOSE i \in 1..Len(questions) :
              /\ questions[i].code = code
              /\ \A j \in 1..(i - 1) : questions[j].code # code) - 1
    ELSE -1

\* structuredClone (line 88): a deep copy, every object in it a new one
cloneQuestion(q) == [f \in DOMAIN q |-> q[f]]
structuredClone(p) ==
    [form |-> [f \in DOMAIN p.form |-> p.form[f]],
     questions |-> [i \in 1..Len(p.questions) |-> cloneQuestion(p.questions[i])]]

\* an updater that sets the answer of every question
mutateAnswer_everyQuestion(prev, code, next) ==
    IF prev = Null THEN prev
    ELSE LET i == findIndex(prev.val.questions, code)
         IN IF i = -1 THEN prev
            ELSE NewSnapshot(prev,
                    [form |-> prev.val.form,
                     questions |-> [j \in 1..Len(prev.val.questions) |->
                         [prev.val.questions[j] EXCEPT !.answer = next]]])

\* an updater that clones before it looks for the question
mutateAnswer_alwaysClones(prev, code, next) ==
    IF prev = Null THEN prev
    ELSE LET i == findIndex(prev.val.questions, code)
             copy == structuredClone(prev.val)
         IN NewSnapshot(prev,
               IF i = -1 THEN copy
               ELSE [copy EXCEPT !.questions[i + 1].answer = next])

\* an updater that sets the answer in the object it was given
mutateAnswer_inPlace(prev, code, next) ==
    IF prev = Null THEN prev
    ELSE LET i == findIndex(prev.val.questions, code)
         IN IF i = -1 THEN prev
            ELSE [prev EXCEPT !.val.questions[i + 1].answer = next]

\* the updater mutateAnswer passes to setPayload (lines 84-91)
mutateAnswer(prev, code, next) ==
    IF prev = Null THEN prev
    ELSE LET i == findIndex(prev.val.questions, code)
         IN IF i = -1 THEN prev
            ELSE LET copy == structuredClone(prev.val)
                 IN NewSnapshot(prev,
                        [copy EXCEPT !.questions[i + 1].answer = next])

\* the early returns of FormPage's render (lines 289-291)
Rendered(p, l, e) == ~l /\ e = Null /\ p # Null

\* the codes of the questions rendered as a TableEditor (lines 267-277)
TableCodes(p) ==
    {p.val.questions[i].code : i \in {j \in 1..Len(p.val.questions) :
                                         p.val.questions[j].type = "table"}}

QuestionOf(p, code) == p.val.questions[findIndex(p.val.questions, code) + 1]

\* the rows prop (line 273): q.table_rows || []
rowsProp(q) == IF "table_rows" \in DOMAIN q THEN q.table_rows ELSE <<>>

\* The TableEditor states after a render of FormPage with state (p1, l1, e1),
\* the state before being (p0, lr): an editor is mounted with
\* useState(rows) (line 322), kept while its question stays a table of the
\* rendered page, and reset by the effect of line 324 when its rows prop is
\* a new array: on a new Payload object, and on every render when
\* table_rows is absent ([] is a new array each time).
localRowsAfter(p0, lr, p1, l1, e1) ==
    IF ~Rendered(p1, l1, e1) THEN <<>>
    ELSE [c \in TableCodes(p1) |->
            LET q == QuestionOf(p1, c)
            IN IF /\ c \in DOMAIN lr
                  /\ "table_rows" \in DOMAIN q
                  /\ p1.ref = p0.ref
               THEN lr[c]
               ELSE rowsProp(q)]

\* The array object an editor's localRows state holds is "prop", the very
\* array passed as the rows prop (useState(rows) and setLocalRows(rows) store
\* it as it is), or an array an updater has built, "A" or "B"; a new array
\* gets the identity its predecessor does not have.
NewArrayRef(r) == IF r = "A" THEN "B" ELSE "A"

\* the array identities after the render of localRowsAfter
rowsRefAfter(p0, lr, rr, p1, l1, e1) ==
    IF ~Rendered(p1, l1, e1) THEN <<>>
    ELSE [c \in TableCodes(p1) |->
            LET q == QuestionOf(p1, c)
            IN IF /\ c \in DOMAIN lr
                  /\ "table_rows" \in DOMAIN q
                  /\ p1.ref = p0.ref
               THEN rr[c]
               ELSE "prop"]

\* the upsert_table_row calls after that render: a call whose editor was
\* unmounted settles on a dead component (its setLocalRows does nothing)
rowCallsAfter(rc, lr0, lr1) ==
    [k \in 1..Len(rc) |->
        IF rc[k].code \in DOMAIN lr0 /\ rc[k].code \notin DOMAIN lr1
        THEN [rc[k] EXCEPT !.alive = FALSE]
        ELSE rc[k]]

\* s without its k-th element
RemoveAt(s, k) == SubSeq(s, 1, k - 1) \o SubSeq(s, k + 1, Len(s))

\* params.formId (line 23): the route always supplies one
formUUID == "form-1"

\* FormPage's state becomes (p1, l1, s1, e1) and the upsert_table_row calls
\* in flight are rc: when a state value changed FormPage renders again
\* (React skips the render when every setter was given the current value),
\* and the TableEditors follow
AfterSetState(p1, l1, s1, e1, rc) ==
    LET rerender == <<p1, l1, s1, e1>> # <<payload, loading, submitting, error>>
        lr1 == IF rerender
               THEN localRowsAfter(payload, localRows, p1, l1, e1)
               ELSE localRows
    IN /\ payload' = p1
       /\ loading' = l1
       /\ submitting' = s1
       /\ error' = e1
       /\ localRows' = lr1
       /\ rowsRef' = IF rerender
                     THEN rowsRefAfter(payload, localRows, rowsRef, p1, l1, e1)
                     ELSE rowsRef
       /\ rowCalls' = rowCallsAfter(rc, localRows, lr1)

\* the remote calls that have not settled
InFlight ==
    loadCalls + Len(answerCalls) + Len(rowCalls) + submitCalls + reloadCalls

Init ==
    /\ payload = Null
    /\ loading = TRUE
    /\ submitting = FALSE
    /\ error = Null
    /\ localRows = <<>>
    /\ rowsRef = <<>>
    /\ loadCalls = 1      \* the effect of lines 31-43 has issued its call
    /\ answerCalls = <<>>
    /\ rowCalls = <<>>
    /\ submitCalls = 0
    /\ reloadCalls = 0
    /\ srvStatus \in {"draft", "submitted"}
    /\ srvQuestions \in Forms
    /\ addedRows = {}
    /\ ev = [op |-> "mount"]

\* lines 35-41, the call returns data
LoadOk ==
    /\ loadCalls > 0
    /\ \E data \in FetchResults(formUUID, srvStatus, srvQuestions) :
          AfterSetState(NewSnapshot(payload, data), FALSE, submitting, error,
                        rowCalls)
    /\ loadCalls' = loadCalls - 1
    /\ ev' = [op |-> "load ok"]
    /\ UNCHANGED <<answerCalls, submitCalls, reloadCalls, srvStatus, srvQuestions,
                   addedRows>>

\* lines 35-41, the call returns an error
LoadError ==
    /\ loadCalls > 0
    /\ AfterSetState(payload, FALSE, submitting, Str("load failed"), rowCalls)
    /\ loadCalls' = loadCalls - 1
    /\ ev' = [op |-> "load error"]
    /\ UNCHANGED <<answerCalls, submitCalls, reloadCalls, srvStatus, srvQuestions,
                   addedRows>>

----------------------------------------------------------------------------
(* renderQuestion: the onChange handlers up to their await *)

\* an upsertAnswer that drops the calls in flight for the same question
IssueUpsertAnswer_coalesces(i, value) ==
    /\ InFlight < MaxInFlight
    /\ answerCalls' =
          Append(SelectSeq(answerCalls,
                           LAMBDA c : c.code # payload.val.questions[i].code),
                 [code |-> payload.val.questions[i].code, value |-> value])
    /\ ev' = [op |-> "edit"]
    /\ UNCHANGED <<payload, loading, submitting, error, localRows, rowsRef,
                   loadCalls, rowCalls, submitCalls, reloadCalls, srvStatus,
                   srvQuestions, addedRows>>

\* upsertAnswer (lines 45-50) called by an onChange handler of question i
IssueUpsertAnswer(i, value) ==
    /\ InFlight < MaxInFlight
    /\ answerCalls' = Append(answerCalls,
                             [code |-> payload.val.questions[i].code,
                              value |-> value])
    /\ ev' = [op |-> "edit"]
    /\ UNCHANGED <<payload, loading, submitting, error, localRows, rowsRef,
                   loadCalls,
                   rowCalls, submitCalls, reloadCalls, srvStatus, srvQuestions,
                   addedRows>>

\* the rendered questions of a type
Shown(type) ==
    IF Rendered(payload, loading, error)
    THEN {i \in 1..Len(payload.val.questions) :
             payload.val.questions[i].type = type}
    ELSE {}

\* lines 111-114 and 122-125: the radio that is not checked is chosen
EditBoolean ==
    \E i \in Shown("boolean"), b \in BOOLEAN :
        /\ payload.val.questions[i].answer # Bool(b)
        /\ IssueUpsertAnswer(i, Bool(b))

\* lines 139-142: an option other than the one shown is chosen
EditSingleSelect ==
    \E i \in Shown("single_select") :
        LET q == payload.val.questions[i]
        IN \E o \in 1..Len(q.options) :
              /\ q.answer # Str(q.options[o].value)
              /\ IssueUpsertAnswer(i, Str(q.options[o].value))

\* lines 164-170: a checkbox is toggled
EditMultiSelect ==
    \E i \in Shown("multi_select") :
        LET q == payload.val.questions[i]
        IN \E o \in 1..Len(q.options) :
              IssueUpsertAnswer(i, toggleOption(q, q.options[o].value,
                                   ~optionChecked(q, q.options[o].value)))

\* the string a date or text widget shows: (q.answer as string) || ""
shownString(q) == IF "str" \in DOMAIN q.answer THEN q.answer.str ELSE ""

\* lines 188-191
EditDate ==
    \E i \in Shown("date"), v \in DateInputs :
        /\ v # shownString(payload.val.questions[i])
        /\ IssueUpsertAnswer(i, Str(v))

\* lines 209-218
EditCurrency ==
    \E i \in Shown("currency"), v \in CurrencyInputs :
        /\ v # currencyDisplay(payload.val.questions[i])
        /\ IssueUpsertAnswer(i, currencyPayload(payload.val.questions[i], v))

\* lines 232-235
EditText ==
    \E i \in Shown("text"), v \in TextInputs :
        /\ v # shownString(payload.val.questions[i])
        /\ IssueUpsertAnswer(i, Str(v))

\* lines 248-252
EditNumber ==
    \E i \in Shown("number"), v \in NumberInputs :
        /\ numberValue(v) # payload.val.questions[i].answer
        /\ IssueUpsertAnswer(i, numberValue(v))

\* upsert_answer returns no error (line 51), then mutateAnswer (lines 83-92)
UpsertAnswerOk(k) ==
    /\ AfterSetState(mutateAnswer(payload, answerCalls[k].code,
                                  answerCalls[k].value),
                     loading, submitting, error, rowCalls)
    /\ answerCalls' = RemoveAt(answerCalls, k)
    /\ ev' = [op |-> "upsert_answer ok", code |-> answerCalls[k].code, k |-> k]
    /\ UNCHANGED <<loadCalls, submitCalls, reloadCalls, srvStatus, srvQuestions,
                   addedRows>>

\* a handler that commits although its call failed
UpsertAnswerError_commits(k) ==
    /\ AfterSetState(mutateAnswer(payload, answerCalls[k].code,
                                  answerCalls[k].value),
                     loading, submitting, error, rowCalls)
    /\ answerCalls' = RemoveAt(answerCalls, k)
    /\ ev' = [op |-> "upsert_answer error", code |-> answerCalls[k].code,
              k |-> k]
    /\ UNCHANGED <<loadCalls, submitCalls, reloadCalls, srvStatus, srvQuestions,
                   addedRows>>

\* upsert_answer returns an error: upsertAnswer throws (line 51) and the
\* handler ends there
UpsertAnswerError(k) ==
    /\ answerCalls' = RemoveAt(answerCalls, k)
    /\ ev' = [op |-> "upsert_answer error", code |-> answerCalls[k].code,
              k |-> k]
    /\ UNCHANGED <<payload, loading, submitting, error, localRows, rowsRef,
                   loadCalls,
                   rowCalls, submitCalls, reloadCalls, srvStatus, srvQuestions,
                   addedRows>>

----------------------------------------------------------------------------
(* handleSubmit and the submit button *)

\* a button disabled only while submitting
submitDisabled_onlySubmitting == submitting

\* a button disabled only once the form is submitted
submitDisabled_onlyStatus == payload.val.form.status = "submitted"

\* the button's disabled prop (line 303), on a rendered page
submitDisabled == submitting \/ payload.val.form.status = "submitted"

\* what submit_form returns as data when it returns no error
SubmitData ==
    {Null, [ok |-> TRUE], [ok |-> FALSE, missing_required |-> Num(2)]}

\* data?.ok (line 71)
dataOk(data) == "ok" \in DOMAIN data /\ data.ok

\* data?.missing_required ?? "?" (line 79)
missingText(data) ==
    IF "missing_required" \in DOMAIN data THEN data.missing_required
    ELSE Str("?")

\* the button is activated: lines 65-66
Submit ==
    /\ Rendered(payload, loading, error)
    /\ ~submitDisabled
    /\ InFlight < MaxInFlight
    /\ AfterSetState(payload, loading, TRUE, error, rowCalls)
    /\ submitCalls' = submitCalls + 1
    /\ ev' = [op |-> "submit"]
    /\ UNCHANGED <<loadCalls, answerCalls, reloadCalls, srvStatus, srvQuestions,
                   addedRows>>

\* submit_form returns an error: lines 69-70
SubmitError ==
    /\ submitCalls > 0
    /\ AfterSetState(payload, loading, FALSE, error, rowCalls)
    /\ submitCalls' = submitCalls - 1
    /\ ev' = [op |-> "submit error",
              alert |-> [text |-> "Erro: ", arg |-> Str("submit failed")]]
    /\ UNCHANGED <<loadCalls, answerCalls, reloadCalls, srvStatus, srvQuestions,
                   addedRows>>

\* submit_form returns data with ok set: lines 69-76. The service has
\* then recorded the form as submitted.
SubmitOk ==
    /\ submitCalls > 0
    /\ \E data \in {d \in SubmitData : dataOk(d)} :
          ev' = [op |-> "submit ok", data |-> data,
                 alert |-> [text |-> "Formulario enviado!", arg |-> Null]]
    /\ AfterSetState(payload, loading, FALSE, error, rowCalls)
    /\ submitCalls' = submitCalls - 1
    /\ reloadCalls' = reloadCalls + 1
    /\ srvStatus' = "submitted"
    /\ UNCHANGED <<loadCalls, answerCalls, srvQuestions, addedRows>>

\* a handler that reloads whatever the data says
SubmitNotOk_reloads ==
    /\ submitCalls > 0
    /\ \E data \in {d \in SubmitData : ~dataOk(d)} :
          ev' = [op |-> "submit not ok", data |-> data,
                 alert |-> [text |-> "Campos obrigatorios faltando: ",
                            arg |-> missingText(data)]]
    /\ AfterSetState(payload, loading, FALSE, error, rowCalls)
    /\ submitCalls' = submitCalls - 1
    /\ reloadCalls' = reloadCalls + 1
    /\ UNCHANGED <<loadCalls, answerCalls, srvStatus, srvQuestions,
                   addedRows>>

\* submit_form returns data without ok set: lines 69-71 and 78-80
SubmitNotOk ==
    /\ submitCalls > 0
    /\ \E data \in {d \in SubmitData : ~dataOk(d)} :
          ev' = [op |-> "submit not ok", data |-> data,
                 alert |-> [text |-> "Campos obrigatorios faltando: ",
                            arg |-> missingText(data)]]
    /\ AfterSetState(payload, loading, FALSE, error, rowCalls)
    /\ submitCalls' = submitCalls - 1
    /\ UNCHANGED <<loadCalls, answerCalls, reloadCalls, srvStatus, srvQuestions,
                   addedRows>>

\* a reload that takes only the form part of the data
ReloadOk_formOnly ==
    /\ reloadCalls > 0
    /\ \E data \in FetchResults(formUUID, srvStatus, srvQuestions) :
          AfterSetState(IF data = Null \/ payload = Null
                        THEN NewSnapshot(payload, data)
                        ELSE NewSnapshot(payload,
                                [data EXCEPT !.questions = payload.val.questions]),
                        loading, submitting, error, rowCalls)
    /\ reloadCalls' = reloadCalls - 1
    /\ ev' = [op |-> "reload ok"]
    /\ UNCHANGED <<loadCalls, answerCalls, submitCalls, srvStatus, srvQuestions,
                   addedRows>>

\* the get_form_payload call of line 73 returns data: line 77
ReloadOk ==
    /\ reloadCalls > 0
    /\ \E data \in FetchResults(formUUID, srvStatus, srvQuestions) :
          AfterSetState(NewSnapshot(payload, data), loading, submitting,
                        error, rowCalls)
    /\ reloadCalls' = reloadCalls - 1
    /\ ev' = [op |-> "reload ok"]
    /\ UNCHANGED <<loadCalls, answerCalls, submitCalls, srvStatus, srvQuestions,
                   addedRows>>

\* the get_form_payload call of line 73 returns an error: line 77 does
\* nothing
ReloadError ==
    /\ reloadCalls > 0
    /\ reloadCalls' = reloadCalls - 1
    /\ ev' = [op |-> "reload error"]
    /\ UNCHANGED <<payload, loading, submitting, error, localRows, rowsRef,
                   loadCalls,
                   answerCalls, rowCalls, submitCalls, srvStatus, srvQuestions,
                   addedRows>>

----------------------------------------------------------------------------
(* TableEditor *)

\* the row_index values of a row collection
RowIndices(rows) == {rows[j].row_index : j \in 1..Len(rows)}

\* Array.prototype.find (lines 329, 343): the first row with that row_index
findRow(rows, idx) ==
    rows[CHOOSE j \in 1..Len(rows) :
            /\ rows[j].row_index = idx
            /\ \A h \in 1..(j - 1) : rows[h].row_index # idx]

\* Math.max over the row_index values of a non-empty collection
maxRowIndex(rows) ==
    CHOOSE m \in {rows[j].row_index : j \in 1..Len(rows)} :
        \A j \in 1..Len(rows) : rows[j].row_index <= m

\* an index taken from the number of rows
nextRowIndex_length(rows) == Len(rows)

\* line 336
nextRowIndex(rows) == IF Len(rows) # 0 THEN maxRowIndex(rows) + 1 ELSE 0

\* the updater of updateRow (lines 327-332): every row copied, the first
\* row with that row_index given a new field map with key set
updateRow(prev, idx, key, val) ==
    [j \in 1..Len(prev) |->
        IF /\ prev[j].row_index = idx
           /\ \A h \in 1..(j - 1) : prev[h].row_index # idx
        THEN [row_index |-> prev[j].row_index,
              row |-> [f \in DOMAIN prev[j].row \cup {key} |->
                          IF f = key THEN val ELSE prev[j].row[f]]]
        ELSE [row_index |-> prev[j].row_index, row |-> prev[j].row]]

\* an input of a rendered row changes: lines 359, 367, 374
UpdateField ==
    \E code \in DOMAIN localRows :
      \E j \in 1..Len(localRows[code]), key \in RowKeys :
        \E val \in RowInput(key) :
          /\ localRows[code][j].row_index \in EditedRows
          /\ localRows' = [localRows EXCEPT
                 ![code] = updateRow(@, localRows[code][j].row_index, key, val)]
          /\ rowsRef' = [rowsRef EXCEPT ![code] = NewArrayRef(@)]
          /\ ev' = [op |-> "updateRow"]
          /\ UNCHANGED <<payload, loading, submitting, error, loadCalls,
                         answerCalls, rowCalls, submitCalls, reloadCalls,
                         srvStatus, srvQuestions,
                   addedRows>>

\* upsertTableRow (lines 54-60) called through onSave
IssueUpsertTableRow(op, code, idx, row) ==
    /\ InFlight < MaxInFlight
    /\ rowCalls' = Append(rowCalls, [op |-> op, code |-> code, idx |-> idx,
                                     row |-> row, alive |-> TRUE])
    /\ ev' = [op |-> op]
    /\ UNCHANGED <<payload, loading, submitting, error, localRows, rowsRef,
                   loadCalls,
                   answerCalls, submitCalls, reloadCalls, srvStatus, srvQuestions,
                   addedRows>>

\* "Adicionar linha": lines 336-338
AddRow ==
    \E code \in DOMAIN localRows :
        /\ nextRowIndex(localRows[code]) <
              nextRowIndex(rowsProp(QuestionOf(payload, code))) + MaxNewRows
        /\ IssueUpsertTableRow("addRow", code,
                               nextRowIndex(localRows[code]), <<>>)

\* a saveRow that sends the row as the rows prop has it
SaveRow_sendsProp ==
    \E code \in DOMAIN localRows :
      \E j \in 1..Len(localRows[code]) :
        LET idx == localRows[code][j].row_index
            rows == rowsProp(QuestionOf(payload, code))
        IN /\ idx \in EditedRows
           /\ IssueUpsertTableRow("saveRow", code, idx,
                  IF idx \in RowIndices(rows) THEN findRow(rows, idx).row
                  ELSE <<>>)

\* "Salvar linha" of a rendered row: lines 343-345
SaveRow ==
    \E code \in DOMAIN localRows :
      \E j \in 1..Len(localRows[code]) :
        LET idx == localRows[code][j].row_index
        IN /\ idx \in EditedRows
           /\ IssueUpsertTableRow("saveRow", code, idx,
                                  findRow(localRows[code], idx).row)

\* the updater of addRow (line 339)
appendRow(prev, idx) == Append(prev, [row_index |-> idx, row |-> <<>>])

\* upsert_table_row returns no error (line 61): addRow appends (line 339)
\* if its editor is still mounted, saveRow alerts (line 346)
UpsertTableRowOk(k) ==
    LET c == rowCalls[k]
    IN /\ rowCalls' = RemoveAt(rowCalls, k)
       /\ localRows' = IF c.op = "addRow" /\ c.alive
                       THEN [localRows EXCEPT ![c.code] = appendRow(@, c.idx)]
                       ELSE localRows
       /\ rowsRef' = IF c.op = "addRow" /\ c.alive
                     THEN [rowsRef EXCEPT ![c.code] = NewArrayRef(@)]
                     ELSE rowsRef
       /\ ev' = [op |-> c.op \o " ok",
                 alert |-> IF c.op = "saveRow"
                           THEN [text |-> "Linha salva", arg |-> Null]
                           ELSE Null]
       /\ addedRows' = IF c.op = "addRow"
                       THEN addedRows \cup {<<c.code, c.idx>>}
                       ELSE addedRows
       /\ UNCHANGED <<payload, loading, submitting, error, loadCalls,
                      answerCalls, submitCalls, reloadCalls, srvStatus,
                      srvQuestions>>

\* an addRow that appends although its call failed
UpsertTableRowError_appends(k) ==
    LET c == rowCalls[k]
    IN /\ rowCalls' = RemoveAt(rowCalls, k)
       /\ localRows' = IF c.op = "addRow" /\ c.alive
                       THEN [localRows EXCEPT ![c.code] = appendRow(@, c.idx)]
                       ELSE localRows
       /\ rowsRef' = IF c.op = "addRow" /\ c.alive
                     THEN [rowsRef EXCEPT ![c.code] = NewArrayRef(@)]
                     ELSE rowsRef
       /\ ev' = [op |-> c.op \o " error", alert |-> Null]
       /\ UNCHANGED <<payload, loading, submitting, error, loadCalls,
                      answerCalls, submitCalls, reloadCalls, srvStatus,
                      srvQuestions,
                   addedRows>>

\* upsert_table_row returns an error: upsertTableRow throws (line 61) and
\* addRow or saveRow ends there
UpsertTableRowError(k) ==
    LET c == rowCalls[k]
    IN /\ rowCalls' = RemoveAt(rowCalls, k)
       /\ ev' = [op |-> c.op \o " error", alert |-> Null]
       /\ UNCHANGED <<payload, loading, submitting, error, localRows, rowsRef,
                      loadCalls, answerCalls, submitCalls, reloadCalls,
                      srvStatus, srvQuestions,
                   addedRows>>

----------------------------------------------------------------------------
(* The remote service *)

\* a question is removed from the form on the service side
ServiceRemovesQuestion ==
    /\ Len(srvQuestions) > 1
    /\ srvQuestions' = Tail(srvQuestions)
    /\ ev' = [op |-> "service removes question"]
    /\ UNCHANGED <<payload, loading, submitting, error, localRows, rowsRef,
                   loadCalls,
                   answerCalls, rowCalls, submitCalls, reloadCalls, srvStatus,
                   addedRows>>

----------------------------------------------------------------------------

Next ==
    \/ LoadOk
    \/ LoadError
    \/ EditBoolean
    \/ EditSingleSelect
    \/ EditMultiSelect
    \/ EditDate
    \/ EditCurrency
    \/ EditText
    \/ EditNumber
    \/ \E k \in 1..Len(answerCalls) : UpsertAnswerOk(k)
    \/ \E k \in 1..Len(answerCalls) : UpsertAnswerError(k)
    \/ Submit
    \/ SubmitError
    \/ SubmitOk
    \/ SubmitNotOk
    \/ ReloadOk
    \/ ReloadError
    \/ UpdateField
    \/ AddRow
    \/ SaveRow
    \/ \E k \in 1..Len(rowCalls) : UpsertTableRowOk(k)
    \/ \E k \in 1..Len(rowCalls) : UpsertTableRowError(k)
    \/ ServiceRemovesQuestion

Spec == Init /\ [][Next]_vars

\* Every remote call settles: the service answers each call, with a result
\* or with an error. Nothing obliges the user to act.
LoadSettles == LoadOk \/ LoadError
AnswerSettles ==
    \E k \in 1..Len(answerCalls) : UpsertAnswerOk(k) \/ UpsertAnswerError(k)
SubmitSettles == SubmitError \/ SubmitOk \/ SubmitNotOk
ReloadSettles == ReloadOk \/ ReloadError
RowSettles ==
    \E k \in 1..Len(rowCalls) : UpsertTableRowOk(k) \/ UpsertTableRowError(k)

FairSpec ==
    /\ Spec
    /\ WF_vars(LoadSettles)
    /\ WF_vars(AnswerSettles)
    /\ WF_vars(SubmitSettles)
    /\ WF_vars(ReloadSettles)
    /\ WF_vars(RowSettles)

----------------------------------------------------------------------------
(* Observations used by the properties *)

\* every question code of the forms
Codes == UNION {{qs[i].code : i \in 1..Len(qs)} : qs \in Forms}

HasQuestion(p, c) == p # Null /\ findIndex(p.val.questions, c) # -1
AnswerOf(p, c) == QuestionOf(p, c).answer

\* the page shows the form
PageShown == Rendered(payload, loading, error)
LocalStatus == payload.val.form.status

\* in this step the k-th upsert_answer call settles
AnswerCallSettles(k) ==
    k \in 1..Len(answerCalls) /\ answerCalls' = RemoveAt(answerCalls, k)

\* in this step the k-th upsert_table_row call settles
RowCallSettles(k) ==
    k \in 1..Len(rowCalls) /\ rowCalls' = RemoveAt(rowCalls, k)

----------------------------------------------------------------------------
(* C1 *)

\* in this step the answer of question c becomes a value it did not have
AnswerChanges(c) ==
    /\ HasQuestion(payload', c)
    /\ ~HasQuestion(payload, c) \/ AnswerOf(payload', c) # AnswerOf(payload, c)

\* C1: apart from a replacement of the whole Payload by a fetch, the answer
\* of a question c changes to v only in the step in which an upsert_answer
\* call for (c, v) returns success; the step that issues the call and the
\* step in which the call fails leave the Payload object as it is.
C1_CommitAfterSuccess ==
    [][/\ payload' # payload =>
          \A c \in Codes :
            AnswerChanges(c) =>
               \/ ev'.op \in {"load ok", "reload ok"}
               \/ /\ ev'.op = "upsert_answer ok"
                  /\ \E k \in 1..Len(answerCalls) :
                        /\ AnswerCallSettles(k)
                        /\ answerCalls[k].code = c
                        /\ answerCalls[k].value = AnswerOf(payload', c)
       /\ ev'.op \in {"edit", "upsert_answer error"} => payload' = payload
      ]_vars

\* a currency edit "12,50" was committed after its call succeeded
C1_Witness ==
    /\ ev.op = "upsert_answer ok"
    /\ HasQuestion(payload, "q_cur")
    /\ AnswerOf(payload, "q_cur") =
          [amount_cents |-> Num(1250), currency |-> "BRL"]


----------------------------------------------------------------------------
(* C2 *)

\* q2 is q with its answer field set to v and nothing else changed
OnlyAnswerSet(q, q2, v) ==
    /\ DOMAIN q2 = DOMAIN q
    /\ q2.answer = v
    /\ \A f \in DOMAIN q \ {"answer"} : q2[f] = q[f]

\* C2: when an upsert_answer call for (code, value) returns success and the
\* Payload has a question with that code, the mutateAnswer it runs leaves
\* the form metadata, the number and order of the questions and every
\* field of every other question as they were, and in the first question
\* with that code changes the answer field only, to value.
C2_OnlyAnswerChanges ==
    [][ev'.op = "upsert_answer ok" =>
         \A k \in 1..Len(answerCalls) :
            AnswerCallSettles(k) /\ HasQuestion(payload, answerCalls[k].code) =>
               LET i == findIndex(payload.val.questions, answerCalls[k].code) + 1
               IN /\ payload' # Null
                  /\ DOMAIN payload'.val = DOMAIN payload.val
                  /\ DOMAIN payload'.val.form = DOMAIN payload.val.form
                  /\ \A f \in DOMAIN payload.val.form :
                        payload'.val.form[f] = payload.val.form[f]
                  /\ Len(payload'.val.questions) = Len(payload.val.questions)
                  /\ \A j \in 1..Len(payload.val.questions) :
                        IF j = i
                        THEN OnlyAnswerSet(payload.val.questions[j],
                                           payload'.val.questions[j],
                                           answerCalls[k].value)
                        ELSE payload'.val.questions[j] = payload.val.questions[j]
      ]_vars

\* a date answer was committed beside a table question, whose table_rows
\* are those of the fetch
C2_Witness ==
    /\ ev.op = "upsert_answer ok"
    /\ ev.code = "q_date"
    /\ payload # Null
    /\ payload.val.questions =
          <<[qDate EXCEPT !.answer = Str("2024-01-31")], qTabAcme>>

----------------------------------------------------------------------------
(* C3 *)

\* C3: when an upsert_answer call returns success and no question of the
\* current Payload has its code, or no Payload is loaded, the state holds
\* the very same Payload object afterwards.
C3_AbsentCodeSameSnapshot ==
    [][ev'.op = "upsert_answer ok" =>
         \A k \in 1..Len(answerCalls) :
            AnswerCallSettles(k) /\ ~HasQuestion(payload, answerCalls[k].code)
               => payload' = payload
      ]_vars

\* an upsert of q_bool returned success after a reload had removed q_bool
C3_Witness ==
    /\ ev.op = "upsert_answer ok"
    /\ ev.code = "q_bool"
    /\ payload # Null
    /\ ~HasQuestion(payload, "q_bool")
    /\ HasQuestion(payload, "q_sel")

\* an upsert returned success while no Payload was loaded
C3_WitnessNoPayload == ev.op = "upsert_answer ok" /\ payload = Null

----------------------------------------------------------------------------
(* C4 *)

\* C4: in a state whose local form status is "submitted" the submit button
\* is disabled, and no step from such a state issues a submit_form call.
C4_NoSubmitWhenSubmitted ==
    [][payload # Null /\ LocalStatus = "submitted" =>
          /\ submitCalls' <= submitCalls
          /\ ev'.op # "submit"]_vars

\* the page shows a form that a reload has brought as submitted
C4_Witness ==
    /\ PageShown
    /\ LocalStatus = "submitted"
    /\ ev.op = "reload ok"
    /\ InFlight = 0

----------------------------------------------------------------------------
(* C5 *)

\* C5: at most one submit_form call is in flight, and the submitting flag
\* is set exactly while one is.
C5_OneSubmitInFlight ==
    /\ submitCalls <= 1
    /\ submitting <=> submitCalls = 1

\* a submit_form call is in flight and another remote call could be issued
C5_Witness ==
    /\ submitCalls = 1
    /\ submitting
    /\ PageShown
    /\ LocalStatus = "draft"
    /\ InFlight < MaxInFlight

----------------------------------------------------------------------------
(* C6 *)

\* C6: in the step in which submit_form returns data that is not ok, the
\* alert carries the missing_required value of the data, the Payload object
\* stays the same (a draft form stays a draft) and no get_form_payload call
\* is issued.
C6_NotOkNoMutationNoFetch ==
    [][ev'.op = "submit not ok" =>
          /\ ev'.alert.text = "Campos obrigatorios faltando: "
          /\ "missing_required" \in DOMAIN ev'.data =>
                ev'.alert.arg = ev'.data.missing_required
          /\ payload' = payload
          /\ reloadCalls' = reloadCalls
          /\ loadCalls' = loadCalls
      ]_vars

\* submit_form returned {ok: false, missing_required: 2} on a draft form
C6_Witness ==
    /\ ev.op = "submit not ok"
    /\ ev.data = [ok |-> FALSE, missing_required |-> Num(2)]
    /\ ev.alert.arg = Num(2)
    /\ PageShown
    /\ LocalStatus = "draft"
    /\ reloadCalls = 0

----------------------------------------------------------------------------
(* C7 *)

LocalSubmitted == payload # Null /\ LocalStatus = "submitted"

\* C7 as stated: a submit_form call that returned ok is eventually followed
\* by a state whose local form status is "submitted".
C7_OkLeadsToSubmitted == (ev.op = "submit ok") ~> LocalSubmitted

\* C7, amended: the step in which submit_form returns ok issues one
\* get_form_payload call and leaves the Payload; that call stays in flight
\* until it returns; when it returns a payload, the local Payload is a new
\* object holding exactly the returned form and questions, with status
\* "submitted"; when it returns no data the local Payload becomes null, and
\* when it fails the local Payload is left as it was.
C7_OkReloadsAndReplaces ==
    [][/\ ev'.op = "submit ok" =>
            reloadCalls' = reloadCalls + 1 /\ payload' = payload
       /\ ev'.op = "reload ok" =>
            /\ reloadCalls' = reloadCalls - 1
            /\ \/ payload' = Null
               \/ /\ payload' # payload
                  /\ payload'.val.form =
                        [id |-> formUUID, status |-> "submitted",
                         company |-> "Acme"]
                  /\ payload'.val.questions = srvQuestions
       /\ ev'.op = "reload error" =>
            reloadCalls' = reloadCalls - 1 /\ payload' = payload
       /\ reloadCalls' < reloadCalls =>
            ev'.op \in {"reload ok", "reload error"}
      ]_vars

\* the reload after a submit that returned ok has replaced a Payload with
\* a locally committed answer by the fetched one
C7_Witness ==
    /\ ev.op = "reload ok"
    /\ LocalSubmitted
    /\ payload.val.questions = <<qBool, qSel>>
    /\ answerCalls = <<>>

----------------------------------------------------------------------------
(* C8 *)

\* C8: whenever a get_form_payload call is in flight, from the load effect
\* or from handleSubmit, the loading flag is set (so the flag is cleared
\* only when none is in flight).
C8_LoadingWhileFetching == loadCalls + reloadCalls > 0 => loading

----------------------------------------------------------------------------
(* C9 *)

\* C9: the step that activates addRow issues one upsert_table_row call
\* with an empty field map and a row_index that is 0 for an empty draft and
\* otherwise one more than the largest row_index of the draft (4 for rows
\* 0, 1, 3); the step in which that call returns success appends a row
\* with that row_index and an empty field map to the draft of the editor.
C9_AddRowIndex ==
    [][/\ ev'.op = "addRow" =>
            LET c == rowCalls'[Len(rowCalls')]
                rows == localRows[c.code]
            IN /\ rowCalls' = Append(rowCalls, c)
               /\ c.op = "addRow"
               /\ DOMAIN c.row = {}
               /\ rows = <<>> => c.idx = 0
               /\ rows # <<>> =>
                     /\ c.idx - 1 \in RowIndices(rows)
                     /\ \A x \in RowIndices(rows) : x < c.idx
               /\ RowIndices(rows) = {0, 1, 3} => c.idx = 4
       /\ ev'.op = "addRow ok" =>
            \A k \in 1..Len(rowCalls) :
               RowCallSettles(k) /\ rowCalls[k].alive =>
                  LET c == rowCalls[k]
                      last == localRows'[c.code][Len(localRows'[c.code])]
                  IN /\ Len(localRows'[c.code]) = Len(localRows[c.code]) + 1
                     /\ SubSeq(localRows'[c.code], 1, Len(localRows[c.code]))
                           = localRows[c.code]
                     /\ last.row_index = c.idx
                     /\ DOMAIN last.row = {}
      ]_vars

\* addRow on rows 0, 1, 3 has appended row 4 with an empty field map
C9_Witness ==
    /\ ev.op = "addRow ok"
    /\ "q_tab" \in DOMAIN localRows
    /\ Len(localRows["q_tab"]) = 4
    /\ [j \in 1..4 |-> localRows["q_tab"][j].row_index] = <<0, 1, 3, 4>>
    /\ DOMAIN localRows["q_tab"][4].row = {}

\* addRow on an empty table has appended row 0
C9_WitnessEmpty ==
    /\ ev.op = "addRow ok"
    /\ "q_tab" \in DOMAIN localRows
    /\ Len(localRows["q_tab"]) = 1
    /\ localRows["q_tab"][1].row_index = 0

----------------------------------------------------------------------------
(* C10 *)

\* C10: the draft of a TableEditor never holds two rows with the same
\* row_index.
C10_UniqueRowIndex ==
    \A code \in DOMAIN localRows :
        \A i, j \in 1..Len(localRows[code]) :
            i # j => localRows[code][i].row_index # localRows[code][j].row_index

----------------------------------------------------------------------------
(* C11 *)

\* in this step the draft of the editor of question c gets longer
DraftGrows(c) ==
    /\ c \in DOMAIN localRows
    /\ c \in DOMAIN localRows'
    /\ Len(localRows'[c]) > Len(localRows[c])

\* C11: the draft of an editor gets longer only in the step in which an
\* upsert_table_row call issued by addRow for that question returns
\* success; the step that activates addRow and the step in which its call
\* fails leave every draft as it is.
C11_AppendAfterSuccess ==
    [][/\ \A c \in Codes :
            DraftGrows(c) =>
               /\ ev'.op = "addRow ok"
               /\ \E k \in 1..Len(rowCalls) :
                     /\ RowCallSettles(k)
                     /\ rowCalls[k].op = "addRow"
                     /\ rowCalls[k].code = c
       /\ ev'.op \in {"addRow", "addRow error"} => localRows' = localRows
      ]_vars

\* an addRow call has failed on the editor of the one-row table, whose
\* draft still is that one row
C11_Witness ==
    /\ ev.op = "addRow error"
    /\ "q_tab" \in DOMAIN localRows
    /\ localRows["q_tab"] = qTabAcme.table_rows

----------------------------------------------------------------------------
(* C12 *)

\* the set of values a multi_select answer selects
SelectedSet(v) == IF IsArray(v) THEN {v.arr[i] : i \in 1..Len(v.arr)} ELSE {}

\* C12: the set committed by a toggle of a multi_select question differs
\* from the set selected just before the commit in the toggled option only,
\* also when the calls of several toggles are in flight together: no
\* commit adds or removes more than one option.
C12_ToggleKeepsOtherOptions ==
    [][ev'.op = "upsert_answer ok" /\ ev'.code = "q_multi"
          /\ HasQuestion(payload, "q_multi") =>
         LET before == SelectedSet(AnswerOf(payload, "q_multi"))
             after == SelectedSet(AnswerOf(payload', "q_multi"))
         IN Cardinality((before \ after) \cup (after \ before)) <= 1
      ]_vars

----------------------------------------------------------------------------
(* C13 *)

\* the currency questions of the local Payload whose answer holds a number
\* as amount_cents
CurrencyAnswered ==
    IF payload = Null THEN {}
    ELSE {i \in 1..Len(payload.val.questions) :
             /\ payload.val.questions[i].type = "currency"
             /\ "amount_cents" \in DOMAIN payload.val.questions[i].answer
             /\ "num" \in DOMAIN payload.val.questions[i].answer.amount_cents}

\* C13: once a currency answer has been committed, the string the widget
\* displays for it, put through the onChange parser, gives the same
\* amount_cents again; and the answer {amount_cents: 1250, currency: "BRL"},
\* which the input "12,50" persists, is displayed as "12,50".
C13_CurrencyRoundTrip ==
    ev.op = "upsert_answer ok" =>
      \A i \in CurrencyAnswered :
        LET q == payload.val.questions[i]
        IN /\ currencyPayload(q, currencyDisplay(q)).amount_cents
                 = q.answer.amount_cents
           /\ q.answer = [amount_cents |-> Num(1250), currency |-> "BRL"] =>
                 currencyDisplay(q) = <<"1", "2", ",", "5", "0">>

----------------------------------------------------------------------------
(* C14 *)

\* this step shows the user an error: an alert, or the page-level error
\* state newly set
ErrorReported ==
    \/ "alert" \in DOMAIN ev' /\ ev'.alert # Null
    \/ error' # Null /\ error' # error

\* C14: every step in which a remote call other than addRow's fails (an
\* upsert_answer, the upsert_table_row of saveRow, submit_form, the
\* get_form_payload of the load effect or of handleSubmit) reports the
\* error to the user.
C14_FailuresReported ==
    [][ev'.op \in {"upsert_answer error", "saveRow error", "submit error",
                   "load error", "reload error"} => ErrorReported]_vars

----------------------------------------------------------------------------
(* C15 *)

\* every editor mounted before and after this step has the same draft
DraftsKept ==
    \A c \in DOMAIN localRows \cap DOMAIN localRows' :
        localRows'[c] = localRows[c]

\* C15: the step in which an answer is committed leaves the draft of every
\* TableEditor as it is: the rows appended by addRow and the fields set by
\* updateRow are still in it.
C15_CommitKeepsDraft ==
    [][ev'.op = "upsert_answer ok" => DraftsKept]_vars

----------------------------------------------------------------------------
(* C16 *)

\* C16: no step that activates addRow issues an upsert_table_row call with
\* a row_index for which an addRow call of the same question has returned
\* success before.
C16_IndexNotReused ==
    [][ev'.op = "addRow" =>
          LET c == rowCalls'[Len(rowCalls')]
          IN <<c.code, c.idx>> \notin addedRows
      ]_vars

----------------------------------------------------------------------------
(* C17 *)

\* the localRows state of the editor of c holds the same array object
\* before and after this step
SameArray(c) ==
    /\ rowsRef'[c] = rowsRef[c]
    /\ rowsRef[c] = "prop" => payload' = payload

\* C17: no step changes what an existing snapshot object holds: a Payload
\* object that stays in the state keeps its content, and so does an array
\* that stays the draft of an editor; every commit of mutateAnswer puts a
\* new Payload object into the state, and every updateRow and every append
\* of addRow a new array.
C17_CopyOnWrite ==
    [][/\ payload # Null /\ payload' # Null /\ payload'.ref = payload.ref
             => payload'.val = payload.val
       /\ \A c \in DOMAIN localRows \cap DOMAIN localRows' :
             SameArray(c) => localRows'[c] = localRows[c]
       /\ ev'.op = "upsert_answer ok" /\ HasQuestion(payload, ev'.code)
             => payload'.ref # payload.ref
       /\ ev'.op = "updateRow" =>
             \E c \in DOMAIN localRows : rowsRef'[c] # rowsRef[c]
       /\ ev'.op = "addRow ok" =>
             \A k \in 1..Len(rowCalls) :
                RowCallSettles(k) /\ rowCalls[k].alive =>
                   rowsRef'[rowCalls[k].code] # rowsRef[rowCalls[k].code]
      ]_vars

\* after a committed answer, the second of two updateRow calls has put its
\* own new array into the editor
C17_Witness ==
    /\ ev.op = "updateRow"
    /\ payload # Null
    /\ payload.ref = "B"
    /\ AnswerOf(payload, "q_date") = Str("2024-01-31")
    /\ rowsRef = [q_tab |-> "B"]
    /\ localRows["q_tab"][1].row = [name |-> Str("Zed")]

----------------------------------------------------------------------------
(* C18 *)

\* rows2 is rows with at most the field key of its j-th row changed
OnlyKeyChanged(rows, rows2, j, key) ==
    /\ Len(rows2) = Len(rows)
    /\ \A h \in 1..Len(rows) :
          /\ rows2[h].row_index = rows[h].row_index
          /\ h # j => rows2[h].row = rows[h].row
    /\ DOMAIN rows2[j].row = DOMAIN rows[j].row \cup {key}
    /\ \A f \in DOMAIN rows[j].row \ {key} : rows2[j].row[f] = rows[j].row[f]

\* C18: the step that activates saveRow issues one upsert_table_row call,
\* for a row_index of the draft, carrying the field map the draft holds
\* for the first row with that row_index, and no other call; that step and
\* the steps in which the call returns, with success or with an error,
\* leave every draft as it is. The step of an updateRow issues no remote
\* call and changes, in one draft, only one key of the first row with a
\* row_index.
C18_SaveRowSendsDraft ==
    [][/\ ev'.op = "saveRow" =>
            LET c == rowCalls'[Len(rowCalls')]
                rows == localRows[c.code]
            IN /\ rowCalls' = Append(rowCalls, c)
               /\ c.op = "saveRow"
               /\ \E j \in 1..Len(rows) :
                     /\ rows[j].row_index = c.idx
                     /\ \A h \in 1..(j - 1) : rows[h].row_index # c.idx
                     /\ c.row = rows[j].row
               /\ InFlight' = InFlight + 1
       /\ ev'.op \in {"saveRow", "saveRow ok", "saveRow error"} =>
            localRows' = localRows
       /\ ev'.op \in {"saveRow ok", "saveRow error"} => InFlight' = InFlight - 1
       /\ ev'.op = "updateRow" =>
            /\ rowCalls' = rowCalls
            /\ InFlight' = InFlight
            /\ \E c \in DOMAIN localRows :
                  /\ \A d \in DOMAIN localRows \ {c} : localRows'[d] = localRows[d]
                  /\ \E j \in 1..Len(localRows[c]), key \in RowKeys :
                        /\ \A h \in 1..(j - 1) :
                              localRows[c][h].row_index # localRows[c][j].row_index
                        /\ OnlyKeyChanged(localRows[c], localRows'[c], j, key)
      ]_vars

\* the name of a row that also has has_baa was edited and the row saved
\* with success: the draft still holds both fields
C18_Witness ==
    /\ ev.op = "saveRow ok"
    /\ ev.alert = [text |-> "Linha salva", arg |-> Null]
    /\ "q_tab" \in DOMAIN localRows
    /\ Len(localRows["q_tab"]) = 3
    /\ localRows["q_tab"][1].row =
          [name |-> Str("Zed"), has_baa |-> Bool(TRUE)]

----------------------------------------------------------------------------
(* C19 *)

\* C19: every edit appends exactly one upsert_answer call, for a question
\* of the Payload, behind the calls already in flight, whether or not one
\* of them is for the same question; the step in which any of the calls in
\* flight returns success, whatever its position, sets the answer of its
\* question, if the Payload has it, to the value of that call.
C19_EditsNotCoalesced ==
    [][/\ ev'.op = "edit" =>
            /\ Len(answerCalls') = Len(answerCalls) + 1
            /\ SubSeq(answerCalls', 1, Len(answerCalls)) = answerCalls
            /\ HasQuestion(payload, answerCalls'[Len(answerCalls')].code)
            /\ InFlight' = InFlight + 1
       /\ ev'.op = "upsert_answer ok" =>
            /\ AnswerCallSettles(ev'.k)
            /\ answerCalls[ev'.k].code = ev'.code
            /\ HasQuestion(payload, ev'.code) =>
                  AnswerOf(payload', ev'.code) = answerCalls[ev'.k].value
      ]_vars

\* of two edits of the boolean question in flight together, true and then
\* false, the second has returned first and is committed while the first
\* is still in flight
C19_Witness ==
    /\ ev.op = "upsert_answer ok"
    /\ ev.k = 2
    /\ answerCalls = <<[code |-> "q_bool", value |-> Bool(TRUE)]>>
    /\ HasQuestion(payload, "q_bool")
    /\ AnswerOf(payload, "q_bool") = Bool(FALSE)

\* both calls have settled and the answer is that of the edit made first
C19_WitnessLastCompleted ==
    /\ ev.op = "upsert_answer ok"
    /\ ev.k = 1
    /\ answerCalls = <<>>
    /\ HasQuestion(payload, "q_bool")
    /\ AnswerOf(payload, "q_bool") = Bool(TRUE)

----------------------------------------------------------------------------
(* C20 *)

\* C20: once a submit_form call has returned ok (from then on the service
\* holds the form as submitted), no step issues a submit_form call: not
\* while the get_form_payload call that follows is in flight, and not after
\* it has failed.
C20_NoSubmitAfterOk ==
    [][srvStatus = "submitted" =>
          /\ ev'.op # "submit"
          /\ submitCalls' <= submitCalls
      ]_vars

====
